---------------------------- MODULE Spec2Model ----------------------------
(***************************************************************************)
(* A model of psycopgwrap.py: RowHelper (a fetched row read by position,   *)
(* name or attribute), CursorHelper (forward-only indexed and iterable     *)
(* access over a psycopg2 cursor) and DatabaseClass (one lazily opened     *)
(* connection, query / queryone / insert, commit / rollback).              *)
(*                                                                         *)
(* The psycopg2 driver is the environment.  What the model takes from it:  *)
(*   - an executed SELECT leaves a cursor with rowcount = number of rows   *)
(*     and rownumber = 0; fetchone() returns the row at rownumber and      *)
(*     advances rownumber, or returns None at the end;                     *)
(*   - a cursor whose connection was closed, or that was closed itself,    *)
(*     raises InterfaceError on fetchone(); close() on it either succeeds  *)
(*     or raises InterfaceError, depending on the driver's version;        *)
(*   - every row of a result set has at least one column;                  *)
(*   - DictConnection(dsn) succeeds, and connection strings given to       *)
(*     connect() are not empty.                                            *)
(*                                                                         *)
(* SpecCursor is one CursorHelper and the calls made on it; SpecIteration  *)
(* is its passes with gets in between, consumed to the end; SpecDb is one  *)
(* DatabaseClass and the calls made on it; SpecRow is one RowHelper and    *)
(* the attributes read from it.                                            *)
(***************************************************************************)
EXTENDS Integers, Sequences, FiniteSets, TLC

\* ------------------------------------------------------------------ bounds
\* The largest result set a query returns.
MaxRows == 3
\* How often a CursorHelper is released explicitly.
MaxReleases == 2

\* How many connections a DatabaseClass opens in all.
MaxConns == 3

\* The most columns a row read by attribute has.
MaxCols == 2

VARIABLES
    cursor,     \* the psycopg2 cursor a CursorHelper wraps
    helper,     \* the CursorHelper: its cursor reference and currentRecord
    gen,        \* the generator made by CursorHelper.__iter__ (one pass)
    releases,   \* explicit calls of CursorHelper.__del__ made so far
    alive,      \* FALSE once the CursorHelper was garbage-collected
    last,       \* the latest call on the CursorHelper and what it did
    prev,       \* the call before it
    db,         \* the DatabaseClass: initialized, connectString, connection
    conns,      \* the connections opened so far, in the order of opening
    dalive,     \* FALSE once the DatabaseClass was garbage-collected
    dlast,      \* the latest call on the DatabaseClass and what it did
    record,     \* a RowHelper whose attributes are read
    rlast       \* the latest attribute read of the RowHelper and its result

cvars == <<cursor, helper, gen, releases, alive, last, prev>>
dvars == <<db, conns, dalive, dlast>>
rvars == <<record, rlast>>
vars == <<cvars, dvars, rvars>>

\* ---------------------------------------------------------- python values
\* None, where a row or a RowHelper is expected.
None == [none |-> TRUE, cols |-> <<>>, vals |-> <<>>]

\* A psycopg2 DictRow: the values in column order and the column names.
DictRow(cols, vals) == [none |-> FALSE, cols |-> cols, vals |-> vals]

\* Python's truth value of a row or None ("if not row"): None and an empty
\* list are false.
Falsy(x) == x.none \/ Len(x.vals) = 0

\* RowHelper.__init__: the list part is a copy of the row's values, and the
\* row object itself is kept.
RowHelper(row) ==
    [none |-> FALSE, cols |-> row.cols, vals |-> [i \in 1..Len(row.vals) |-> row.vals[i]]]

\* --------------------------------------------------------- the result set
\* The rows of "SELECT * FROM indexes ORDER BY value" on a table holding
\* 0..n-1: row i (counted from 0) is [i].
ResultSet(n) == [i \in 1..n |-> DictRow(<<"value">>, <<i - 1>>)]

\* The row of result set rows at (0-based) index i.
RowAt(rows, i) == rows[i + 1]

\* ------------------------------------------------------- psycopg2 cursor
\* connection.cursor() followed by cursor.execute(query, args).
ExecutedCursor(rows) ==
    [rows |-> rows, rownumber |-> 0, closed |-> FALSE, closeCalls |-> 0]

rowcount(c) == Len(c.rows)

\* cursor.fetchone() on an open cursor: the next row and the advanced
\* cursor, or None at the end of the result set.
fetchone(c) ==
    IF c.rownumber < rowcount(c)
    THEN [row |-> RowAt(c.rows, c.rownumber),
          cursor |-> [c EXCEPT !.rownumber = c.rownumber + 1]]
    ELSE [row |-> None, cursor |-> c]

\* ----------------------------------------------------------- CursorHelper
\* CursorHelper.__init__.
NewHelper == [cursor |-> TRUE, currentRecord |-> None]

\* What a call on the CursorHelper did.
Outcome(o, value, c, h, n) ==
    [outcome |-> o, value |-> value, cursor |-> c, helper |-> h, fetchCalls |-> n,
     caught |-> "none"]

\* A faulty variant: The translation counts from one row too far back.
TranslateShifted(c, index) == IF index < 0 THEN rowcount(c) + index - 1 ELSE index

\* The negative-index translation of __getitem__.
Translate(c, index) == IF index < 0 THEN rowcount(c) + index ELSE index

\* A faulty variant: The fetch loop without its raise: at the end of the result set
\* it returns the emptied currentRecord.
RECURSIVE FetchLoopNoRaise(_, _, _, _)
FetchLoopNoRaise(c, h, index, n) ==
    IF index >= c.rownumber
    THEN IF c.closed
         THEN Outcome("InterfaceError", None, c, h, n + 1)
         ELSE LET f == fetchone(c) IN
              IF Falsy(f.row)
              THEN Outcome("ok", None, f.cursor,
                           [h EXCEPT !.currentRecord = None], n + 1)
              ELSE FetchLoopNoRaise(f.cursor,
                                    [h EXCEPT !.currentRecord = RowHelper(f.row)],
                                    index, n + 1)
    ELSE Outcome("ok", h.currentRecord, c, h, n)

\* A faulty variant: the fetch loop goes on one record past the index.
RECURSIVE FetchLoopOvershoots(_, _, _, _)
FetchLoopOvershoots(c, h, index, n) ==
    IF index + 1 >= c.rownumber
    THEN IF c.closed
         THEN Outcome("InterfaceError", None, c, h, n + 1)
         ELSE LET f == fetchone(c) IN
              IF Falsy(f.row)
              THEN Outcome("IndexError", None, f.cursor,
                           [h EXCEPT !.currentRecord = None], n + 1)
              ELSE FetchLoopOvershoots(f.cursor,
                                       [h EXCEPT !.currentRecord = RowHelper(f.row)],
                                       index, n + 1)
    ELSE Outcome("ok", h.currentRecord, c, h, n)

\* The fetch loop of __getitem__: n counts the fetchone() calls made.
RECURSIVE FetchLoop(_, _, _, _)
FetchLoop(c, h, index, n) ==
    IF index >= c.rownumber
    THEN IF c.closed
         THEN Outcome("InterfaceError", None, c, h, n + 1)
         ELSE LET f == fetchone(c) IN
              IF Falsy(f.row)
              THEN Outcome("IndexError", None, f.cursor,
                           [h EXCEPT !.currentRecord = None], n + 1)
              ELSE FetchLoop(f.cursor,
                             [h EXCEPT !.currentRecord = RowHelper(f.row)],
                             index, n + 1)
    ELSE Outcome("ok", h.currentRecord, c, h, n)

\* A faulty variant: The check lets the caller step back two records.
RewindsLax(c, index) == index < c.rownumber - 2

\* The sequential-access check of __getitem__.
Rewinds(c, index) == index < c.rownumber - 1

\* A faulty variant: __getitem__ without the cached record: asking for the latest
\* index again is refused like any earlier one.
GetItemNoCache(c, h, index) ==
    IF ~h.cursor
    THEN Outcome("AttributeError", None, c, h, 0)
    ELSE LET i == Translate(c, index) IN
         IF i < c.rownumber
         THEN Outcome("NotImplementedError", None, c, h, 0)
         ELSE FetchLoop(c, h, i, 0)

\* CursorHelper.__getitem__(index).  After a release self.cursor is None and
\* reading its rowcount or rownumber raises AttributeError.
GetItem(c, h, index) ==
    IF ~h.cursor
    THEN Outcome("AttributeError", None, c, h, 0)
    ELSE LET i == Translate(c, index) IN
         IF Rewinds(c, i)
         THEN Outcome("NotImplementedError", None, c, h, 0)
         ELSE FetchLoop(c, h, i, 0)

\* A faulty variant: The generator asks for the index after the fetch position.
IterStepSkips(c, h) ==
    IF ~h.cursor
    THEN Outcome("AttributeError", None, c, h, 0)
    ELSE IF c.rownumber < rowcount(c)
         THEN GetItem(c, h, c.rownumber + 1)
         ELSE Outcome("StopIteration", None, c, h, 0)

\* A faulty variant: the generator asks for the index before the fetch
\* position.
IterStepStale(c, h) ==
    IF ~h.cursor
    THEN Outcome("AttributeError", None, c, h, 0)
    ELSE IF c.rownumber < rowcount(c)
         THEN GetItem(c, h, c.rownumber - 1)
         ELSE Outcome("StopIteration", None, c, h, 0)

\* One next() on the generator of CursorHelper.__iter__: the loop test and
\* the yield of self[self.cursor.rownumber].
IterStep(c, h) ==
    IF ~h.cursor
    THEN Outcome("AttributeError", None, c, h, 0)
    ELSE IF c.rownumber < rowcount(c)
         THEN GetItem(c, h, c.rownumber)
         ELSE Outcome("StopIteration", None, c, h, 0)

\* cursor.close() as CursorHelper.__del__ calls it.  raised is the driver's
\* choice to answer InterfaceError, which it may make only for a cursor
\* that is closed already.
DriverClose(c, raised) ==
    [cursor |-> [c EXCEPT !.closed = TRUE, !.closeCalls = c.closeCalls + 1],
     error |-> IF raised /\ c.closed THEN "InterfaceError" ELSE "none"]

\* A faulty variant: __del__ without the try/except: the driver's InterfaceError
\* leaves it before the reference is dropped.
DelNoExcept(c, h, raised) ==
    IF h.cursor
    THEN LET r == DriverClose(c, raised) IN
         IF r.error = "none"
         THEN Outcome("ok", None, r.cursor, [h EXCEPT !.cursor = FALSE], 0)
         ELSE Outcome(r.error, None, r.cursor, h, 0)
    ELSE Outcome("ok", None, c, h, 0)

\* CursorHelper.__del__: nothing to do without a cursor reference; else
\* close it, swallow InterfaceError, and drop the reference.
Del(c, h, raised) ==
    IF h.cursor
    THEN LET r == DriverClose(c, raised) IN
         IF r.error \in {"none", "InterfaceError"}
         THEN [Outcome("ok", None, r.cursor, [h EXCEPT !.cursor = FALSE], 0)
                  EXCEPT !.caught = r.error]
         ELSE Outcome(r.error, None, r.cursor, h, 0)
    ELSE Outcome("ok", None, c, h, 0)

\* ---------------------------------------------- RowHelper: attributes
\* A name is the sequence of its parts, "_" being a part of its own:
\* value_ is <<"value", "_">> and _value is <<"_", "value">>.
\* attr.endswith('_')
EndsWithUnderscore(attr) == Len(attr) > 0 /\ attr[Len(attr)] = "_"

\* attr[:-1]
Stripped(attr) == SubSeq(attr, 1, Len(attr) - 1)

\* The attributes a list has, which a RowHelper, being a list, has itself.
ListAttributes == {<<"count">>}

\* The attributes a DictRow has: those of a list and the dict-like methods.
DictRowAttributes == ListAttributes \cup {<<"items">>, <<"keys">>}

\* hasattr(row, attr)
hasattr(row, attr) == attr \in DictRowAttributes

\* row.has_key(name)
has_key(row, name) == \E i \in 1..Len(row.cols) : row.cols[i] = name

\* row[name]
ByName(row, name) == row.vals[CHOOSE i \in 1..Len(row.cols) : row.cols[i] = name]

\* What reading an attribute gives: an attribute of the row object, a
\* column's value, or AttributeError.
TheAttribute(attr) == [kind |-> "attribute", name |-> attr, value |-> 0]
TheValue(v) == [kind |-> "column", name |-> <<>>, value |-> v]
AttributeError == [kind |-> "AttributeError", name |-> <<>>, value |-> 0]
NotRead == [kind |-> "none", name |-> <<>>, value |-> 0]

\* A faulty variant: __getattr__ that tries the column of the full name
\* before the column of the name without its last underscore.
getattrBareFirst(h, attr) ==
    IF hasattr(h, attr)
    THEN TheAttribute(attr)
    ELSE IF has_key(h, attr)
         THEN TheValue(ByName(h, attr))
         ELSE IF EndsWithUnderscore(attr) /\ has_key(h, Stripped(attr))
              THEN TheValue(ByName(h, Stripped(attr)))
              ELSE AttributeError

\* RowHelper.__getattr__; h's cols and vals are its _original_row_object.
getattr(h, attr) ==
    IF hasattr(h, attr)
    THEN TheAttribute(attr)
    ELSE IF EndsWithUnderscore(attr) /\ has_key(h, Stripped(attr))
         THEN TheValue(ByName(h, Stripped(attr)))
         ELSE IF has_key(h, attr)
              THEN TheValue(ByName(h, attr))
              ELSE AttributeError

\* record.attr: Python finds what the RowHelper, a list, has itself and
\* calls __getattr__ for the rest.
ReadAttribute(h, attr) ==
    IF attr \in ListAttributes THEN TheAttribute(attr) ELSE getattr(h, attr)

\* ---------------------------------------------------------- DatabaseClass
\* Python's None, where a connection string is expected.
NoneStr == "None"

\* The string the credentials module supplies to connect().
pgcredentials == "dbname=credentials"

\* Python's truth value of a connection string ("if not self.connectString").
TruthyStr(s) == s # NoneStr /\ s # ""

\* DatabaseClass.__init__; connection 0 stands for no connection object.
NewDatabase == [initialized |-> FALSE, connectString |-> NoneStr, connection |-> 0]

\* psycopg2.extras.DictConnection(dsn): a new open connection.
DictConnection(dsn) == [dsn |-> dsn, closed |-> FALSE, closeCalls |-> 0]

\* A statement: a SELECT returning rows rows, a statement the server
\* rejects, or the INSERT that insert() builds.
Select(n) ==
    [kind |-> "select", rows |-> n, table |-> "", columns |-> <<>>, placeholders |-> <<>>]
BadStatement ==
    [kind |-> "bad", rows |-> 0, table |-> "", columns |-> <<>>, placeholders |-> <<>>]
NoStatement ==
    [kind |-> "none", rows |-> 0, table |-> "", columns |-> <<>>, placeholders |-> <<>>]

\* One call on the driver: which, on which connection, with what.
Event(ev, conn, sql, args) == [ev |-> ev, conn |-> conn, sql |-> sql, args |-> args]

\* No CursorHelper.
NoView == [present |-> FALSE, cursor |-> ExecutedCursor(<<>>), helper |-> NewHelper]

\* The running state of a call on the DatabaseClass: the object, the
\* connections, the exception on its way out, the driver calls made, the
\* CursorHelper and the row returned.
Begin(d, cs) ==
    [db |-> d, conns |-> cs, error |-> "none", log |-> <<>>, view |-> NoView,
     value |-> None]

Raise(r, e) == [r EXCEPT !.error = e]
Logged(r, e) == [r EXCEPT !.log = Append(@, e)]

\* A faulty variant: setup() without the test of self.initialized.
setupAlways(r) ==
    IF ~TruthyStr(r.db.connectString)
    THEN Raise(r, "ValueError")
    ELSE LET id == Len(r.conns) + 1 IN
         Logged([r EXCEPT !.conns = Append(@, DictConnection(r.db.connectString)),
                          !.db.connection = id,
                          !.db.initialized = TRUE],
                Event("open", id, NoStatement, <<>>))

\* A faulty variant: setup() without the test of self.connectString.
setupUnchecked(r) ==
    IF r.db.initialized
    THEN r
    ELSE LET id == Len(r.conns) + 1 IN
         Logged([r EXCEPT !.conns = Append(@, DictConnection(r.db.connectString)),
                          !.db.connection = id,
                          !.db.initialized = TRUE],
                Event("open", id, NoStatement, <<>>))

\* DatabaseClass.setup
setup(r) ==
    IF r.db.initialized
    THEN r
    ELSE IF ~TruthyStr(r.db.connectString)
         THEN Raise(r, "ValueError")
         ELSE LET id == Len(r.conns) + 1 IN
              Logged([r EXCEPT !.conns = Append(@, DictConnection(r.db.connectString)),
                               !.db.connection = id,
                               !.db.initialized = TRUE],
                     Event("open", id, NoStatement, <<>>))

\* DatabaseClass.connect: None asks the credentials module for the string.
connect(r, connectString) ==
    LET s == IF connectString = NoneStr THEN pgcredentials ELSE connectString IN
    setup([r EXCEPT !.db.connectString = s])

\* A faulty variant: close() without the test of self.initialized.
closeUnguarded(r) ==
    LET id == r.db.connection IN
    IF id = 0
    THEN Raise(r, "AttributeError")
    ELSE Logged([r EXCEPT !.conns[id].closed = TRUE,
                          !.conns[id].closeCalls = @ + 1,
                          !.db.connection = 0,
                          !.db.initialized = FALSE],
                Event("close", id, NoStatement, <<>>))

\* A faulty variant: close() that also forgets the connection string.
closeForgets(r) ==
    IF ~r.db.initialized
    THEN r
    ELSE LET id == r.db.connection IN
         Logged([r EXCEPT !.conns[id].closed = TRUE,
                          !.conns[id].closeCalls = @ + 1,
                          !.db.connection = 0,
                          !.db.initialized = FALSE,
                          !.db.connectString = NoneStr],
                Event("close", id, NoStatement, <<>>))

\* DatabaseClass.close
close(r) ==
    IF ~r.db.initialized
    THEN r
    ELSE LET id == r.db.connection IN
         Logged([r EXCEPT !.conns[id].closed = TRUE,
                          !.conns[id].closeCalls = @ + 1,
                          !.db.connection = 0,
                          !.db.initialized = FALSE],
                Event("close", id, NoStatement, <<>>))

\* DatabaseClass.__del__
DatabaseDel(r) == close(r)

\* A method of self.connection is called: without a connection object that
\* is an AttributeError, on a closed connection the driver's InterfaceError.
ConnectionError(r) ==
    IF r.db.connection = 0 THEN "AttributeError"
    ELSE IF r.conns[r.db.connection].closed THEN "InterfaceError"
    ELSE "none"

\* cursor.execute(query, args): the server rejects a bad statement and an
\* INSERT that names no column.
Rejected(sql) == sql.kind = "bad" \/ (sql.kind = "insert" /\ Len(sql.columns) = 0)

\* The rows execute() leaves in the cursor.
Rows(sql) == IF sql.kind = "select" THEN ResultSet(sql.rows) ELSE <<>>

\* The temporary CursorHelper of r is dropped: its __del__ closes the cursor.
Dropped(r) ==
    LET d == Del(r.view.cursor, r.view.helper, FALSE) IN
    IF d.cursor.closeCalls > r.view.cursor.closeCalls
    THEN [Logged(r, Event("cursor.close", r.db.connection, NoStatement, <<>>))
            EXCEPT !.view = NoView]
    ELSE [r EXCEPT !.view = NoView]

\* A faulty variant: query() that rolls back when the statement fails.
queryRollsBack(r, sql, args) ==
    LET s == setup(r) IN
    IF s.error # "none" THEN s
    ELSE IF ConnectionError(s) # "none" THEN Raise(s, ConnectionError(s))
    ELSE LET c == Logged(s, Event("cursor", s.db.connection, NoStatement, <<>>))
             e == Logged(c, Event("execute", s.db.connection, sql, args))
         IN  IF Rejected(sql)
             THEN Raise(Logged(e, Event("rollback", s.db.connection, NoStatement, <<>>)),
                        "ProgrammingError")
             ELSE [e EXCEPT !.view = [present |-> TRUE,
                                      cursor |-> ExecutedCursor(Rows(sql)),
                                      helper |-> NewHelper]]

\* DatabaseClass.query
query(r, sql, args) ==
    LET s == setup(r) IN
    IF s.error # "none" THEN s
    ELSE IF ConnectionError(s) # "none" THEN Raise(s, ConnectionError(s))
    ELSE LET c == Logged(s, Event("cursor", s.db.connection, NoStatement, <<>>))
             e == Logged(c, Event("execute", s.db.connection, sql, args))
         IN  IF Rejected(sql)
             THEN Raise(e, "ProgrammingError")
             ELSE [e EXCEPT !.view = [present |-> TRUE,
                                      cursor |-> ExecutedCursor(Rows(sql)),
                                      helper |-> NewHelper]]

\* A faulty variant: queryone() without the try/except around the index.
queryoneUncaught(r, sql, args) ==
    LET q == query(r, sql, args) IN
    IF q.error # "none" THEN q
    ELSE LET g == GetItem(q.view.cursor, q.view.helper, 0)
             v == [q EXCEPT !.view.cursor = g.cursor, !.view.helper = g.helper]
         IN  IF g.outcome = "ok"
             THEN [Dropped(v) EXCEPT !.value = g.value]
             ELSE Raise(Dropped(v), g.outcome)

\* DatabaseClass.queryone: the CursorHelper is a temporary, dropped once
\* [0] was taken from it.
queryone(r, sql, args) ==
    LET q == query(r, sql, args) IN
    IF q.error # "none" THEN q
    ELSE LET g == GetItem(q.view.cursor, q.view.helper, 0)
             v == [q EXCEPT !.view.cursor = g.cursor, !.view.helper = g.helper]
         IN  IF g.outcome = "IndexError"
             THEN [Dropped(v) EXCEPT !.value = None]
             ELSE IF g.outcome = "ok"
                  THEN [Dropped(v) EXCEPT !.value = g.value]
                  ELSE Raise(Dropped(v), g.outcome)

\* A Python dict as a function from its keys; its keys in the order the
\* dict iterates them are a sequence without repetition over its domain.
Orders(m) ==
    {o \in [1..Cardinality(DOMAIN m) -> DOMAIN m] :
        \A i, j \in DOMAIN o : i # j => o[i] # o[j]}

\* A faulty variant: a.update(b) that keeps a's value for a key of both.
updateKeepsOld(a, b) ==
    [k \in DOMAIN a \cup DOMAIN b |-> IF k \in DOMAIN a THEN a[k] ELSE b[k]]

\* a.update(b): b's value for every key of b.
update(a, b) ==
    [k \in DOMAIN a \cup DOMAIN b |-> IF k \in DOMAIN b THEN b[k] ELSE a[k]]

\* insert()'s kwargs after "if dict is not None: kwargs.update(dict)".
Merged(dict, kwargs) == IF ~dict.none THEN update(kwargs, dict.map) ELSE kwargs

\* The INSERT of insert(): the column names joined in the order of
\* kwargs.keys(), and one %s for each of kwargs.values().
InsertCommand(table, keys, values) ==
    [kind |-> "insert", rows |-> 0, table |-> table, columns |-> keys,
     placeholders |-> [i \in 1..Len(values) |-> "%s"]]

\* A faulty variant: insert() that binds the values in the opposite order
\* of the column names.
insertReversed(r, table, dict, kwargs, order) ==
    LET merged == Merged(dict, kwargs)
        values == [i \in 1..Len(order) |-> merged[order[Len(order) + 1 - i]]]
        q == query(r, InsertCommand(table, order, values), values)
    IN  IF q.error # "none" THEN q ELSE Dropped(q)

\* DatabaseClass.insert; order is the order in which the merged dict
\* iterates, the same for keys() and values().  The CursorHelper query()
\* returns is dropped at once.
insert(r, table, dict, kwargs, order) ==
    LET merged == Merged(dict, kwargs)
        values == [i \in 1..Len(order) |-> merged[order[i]]]
        q == query(r, InsertCommand(table, order, values), values)
    IN  IF q.error # "none" THEN q ELSE Dropped(q)

\* DatabaseClass.commit
commit(r) ==
    LET s == setup(r) IN
    IF s.error # "none" THEN s
    ELSE IF ConnectionError(s) # "none" THEN Raise(s, ConnectionError(s))
    ELSE Logged(s, Event("commit", s.db.connection, NoStatement, <<>>))

\* DatabaseClass.rollback
rollback(r) ==
    LET s == setup(r) IN
    IF s.error # "none" THEN s
    ELSE IF ConnectionError(s) # "none" THEN Raise(s, ConnectionError(s))
    ELSE Logged(s, Event("rollback", s.db.connection, NoStatement, <<>>))

\* ------------------------------------------- calls on one CursorHelper
\* The indexes a caller asks for.
Indexes == (0 - (MaxRows + 1))..(MaxRows + 1)

\* The record of a call: what was asked, what came back, and the state the
\* call started in.
Call(op, index, r, c, h) ==
    [op |-> op, index |-> index,
     tindex |-> IF h.cursor THEN Translate(c, index) ELSE index,
     outcome |-> r.outcome, value |-> r.value, fetchCalls |-> r.fetchCalls,
     caught |-> r.caught,
     pre |-> [cursor |-> c, helper |-> h]]

NoCall ==
    [op |-> "none", index |-> 0, tindex |-> 0, outcome |-> "none", value |-> None,
     fetchCalls |-> 0, caught |-> "none",
     pre |-> [cursor |-> ExecutedCursor(<<>>), helper |-> NewHelper]]

\* What the next call keeps of the call before it.
Brief(call) ==
    [op |-> call.op, index |-> call.index, tindex |-> call.tindex,
     outcome |-> call.outcome, value |-> call.value, caught |-> call.caught]

\* No generator has been made.
NoGen == [state |-> "none", start |-> 0, yielded |-> <<>>, interleaved |-> FALSE]

\* The inputs of a call on the DatabaseClass.
NoInput ==
    [connectString |-> NoneStr, sql |-> NoStatement, table |-> "",
     dict |-> [none |-> TRUE, map |-> <<>>], kwargs |-> <<>>, order |-> <<>>]

\* The record of a call on the DatabaseClass: what was asked, what came
\* back, the driver calls it made, and the state it started in.
DCall(op, in, r, d, cs) ==
    [op |-> op, in |-> in, outcome |-> r.error, log |-> r.log, value |-> r.value,
     view |-> [present |-> r.view.present, rows |-> rowcount(r.view.cursor)],
     pre |-> [db |-> d, conns |-> cs]]

NoDCall == DCall("none", NoInput, Begin(NewDatabase, <<>>), NewDatabase, <<>>)

\* No DatabaseClass is in play.
DbIdle ==
    /\ db = NewDatabase
    /\ conns = <<>>
    /\ dalive = FALSE
    /\ dlast = NoDCall

\* No RowHelper is read by attribute.
RowIdle ==
    /\ record = None
    /\ rlast = [attr |-> <<>>, result |-> NotRead]

\* No CursorHelper is in play.
CursorIdle ==
    /\ cursor = ExecutedCursor(<<>>)
    /\ helper = NewHelper
    /\ gen = NoGen
    /\ releases = 0
    /\ alive = FALSE
    /\ last = NoCall
    /\ prev = Brief(NoCall)

\* The state after db.query(...) returned a CursorHelper over n rows.
CursorInit ==
    /\ DbIdle
    /\ RowIdle
    /\ \E n \in 0..MaxRows : cursor = ExecutedCursor(ResultSet(n))
    /\ helper = NewHelper
    /\ gen = NoGen
    /\ releases = 0
    /\ alive = TRUE
    /\ last = NoCall
    /\ prev = Brief(NoCall)

\* rows[index]
Get(index) ==
    /\ alive
    /\ LET r == GetItem(cursor, helper, index) IN
        /\ cursor' = r.cursor
        /\ helper' = r.helper
        /\ last' = Call("get", index, r, cursor, helper)
    /\ prev' = Brief(last)
    /\ gen' = IF gen.state = "running" THEN [gen EXCEPT !.interleaved = TRUE] ELSE gen
    /\ UNCHANGED <<releases, alive, dvars, rvars>>

\* iter(rows): a new generator; none of its code has run yet.
IterStart ==
    /\ alive
    /\ gen' = [state |-> "running", start |-> cursor.rownumber, yielded |-> <<>>,
               interleaved |-> FALSE]
    /\ UNCHANGED <<cursor, helper, releases, alive, last, prev, dvars, rvars>>

\* next() on the generator: a row is yielded, or the generator ends (by
\* StopIteration, or by the exception self[...] raised).
IterNext ==
    /\ alive
    /\ gen.state = "running"
    /\ LET r == IterStep(cursor, helper) IN
        /\ cursor' = r.cursor
        /\ helper' = r.helper
        /\ last' = Call("next", cursor.rownumber, r, cursor, helper)
        /\ gen' = IF r.outcome = "ok"
                  THEN [gen EXCEPT !.yielded = Append(gen.yielded, r.value)]
                  ELSE [gen EXCEPT !.state =
                            IF r.outcome = "StopIteration" THEN "ended" ELSE "raised"]
    /\ prev' = Brief(last)
    /\ UNCHANGED <<releases, alive, dvars, rvars>>

\* rows.__del__() called by the program.
Release ==
    /\ alive
    /\ releases < MaxReleases
    /\ \E raised \in BOOLEAN :
        LET r == Del(cursor, helper, raised) IN
        /\ cursor' = r.cursor
        /\ helper' = r.helper
        /\ last' = Call("del", 0, r, cursor, helper)
    /\ prev' = Brief(last)
    /\ releases' = releases + 1
    /\ UNCHANGED <<gen, alive, dvars, rvars>>

\* The last reference to the CursorHelper is dropped: Python calls __del__
\* and the object is gone.
Finalize ==
    /\ alive
    /\ \E raised \in BOOLEAN :
        LET r == Del(cursor, helper, raised) IN
        /\ cursor' = r.cursor
        /\ helper' = r.helper
        /\ last' = Call("finalize", 0, r, cursor, helper)
    /\ prev' = Brief(last)
    /\ alive' = FALSE
    /\ UNCHANGED <<gen, releases, dvars, rvars>>

\* The connection the cursor belongs to is closed (DatabaseClass.close):
\* the driver then treats the cursor as closed.
ConnectionClosed ==
    /\ alive
    /\ ~cursor.closed
    /\ cursor' = [cursor EXCEPT !.closed = TRUE]
    /\ UNCHANGED <<helper, gen, releases, alive, last, prev, dvars, rvars>>

CursorNext ==
    \/ \E index \in Indexes : Get(index)
    \/ IterStart
    \/ IterNext
    \/ Release
    \/ Finalize
    \/ ConnectionClosed

SpecCursor == CursorInit /\ [][CursorNext]_vars

\* Passes over a CursorHelper with gets in between, and nothing else: the
\* loop that consumes a generator calls next() until the generator ends.
IterationNext ==
    \/ \E index \in Indexes : Get(index)
    \/ IterStart
    \/ IterNext

SpecIteration == CursorInit /\ [][IterationNext]_vars /\ WF_vars(IterNext)

\* ------------------------------------------- calls on one DatabaseClass
ConnectStrings == {"dbname=a", "dbname=b"}
Statements == {Select(n) : n \in 0..MaxRows} \cup {BadStatement}

\* The dict arguments of insert(): None, or a part of {'a': 1, 'b': 99};
\* its keyword arguments: some of a=2, b=2.
Keys == {"a", "b"}
Part(m) == {[k \in K |-> m[k]] : K \in SUBSET DOMAIN m}
Dicts ==
    {[none |-> TRUE, map |-> <<>>]}
        \cup {[none |-> FALSE, map |-> m] : m \in Part([k \in Keys |-> IF k = "a" THEN 1 ELSE 99])}
Kwargs == Part([k \in Keys |-> 2])

\* A DatabaseClass was made and nothing called on it yet.
DbInit ==
    /\ CursorIdle
    /\ RowIdle
    /\ db = NewDatabase
    /\ conns = <<>>
    /\ dalive = TRUE
    /\ dlast = NoDCall

\* The call named op with inputs in ran to r.
Ran(op, in, r) ==
    /\ dalive
    /\ Len(r.conns) <= MaxConns
    /\ db' = r.db
    /\ conns' = r.conns
    /\ dlast' = DCall(op, in, r, db, conns)
    /\ UNCHANGED <<dalive, cvars, rvars>>

Connect ==
    \E s \in ConnectStrings \cup {NoneStr} :
        Ran("connect", [NoInput EXCEPT !.connectString = s], connect(Begin(db, conns), s))

Setup == Ran("setup", NoInput, setup(Begin(db, conns)))

Close == Ran("close", NoInput, close(Begin(db, conns)))

Query ==
    \E sql \in Statements :
        Ran("query", [NoInput EXCEPT !.sql = sql], query(Begin(db, conns), sql, <<>>))

QueryOne ==
    \E sql \in Statements :
        Ran("queryone", [NoInput EXCEPT !.sql = sql], queryone(Begin(db, conns), sql, <<>>))

Insert ==
    \E dict \in Dicts, kwargs \in Kwargs :
        \E order \in Orders(Merged(dict, kwargs)) :
            Ran("insert",
                [NoInput EXCEPT !.table = "t", !.dict = dict, !.kwargs = kwargs,
                                !.order = order],
                insert(Begin(db, conns), "t", dict, kwargs, order))

Commit == Ran("commit", NoInput, commit(Begin(db, conns)))

Rollback == Ran("rollback", NoInput, rollback(Begin(db, conns)))

\* The last reference to the DatabaseClass is dropped.
Collect ==
    /\ dalive
    /\ LET r == DatabaseDel(Begin(db, conns)) IN
        /\ db' = r.db
        /\ conns' = r.conns
        /\ dlast' = DCall("del", NoInput, r, db, conns)
    /\ dalive' = FALSE
    /\ UNCHANGED <<cvars, rvars>>

DbNext ==
    \/ Connect
    \/ Setup
    \/ Close
    \/ Query
    \/ QueryOne
    \/ Insert
    \/ Commit
    \/ Rollback
    \/ Collect

SpecDb == DbInit /\ [][DbNext]_vars

\* ---------------------------------------------- reads of one RowHelper
\* The names of columns and of attributes read.
value == <<"value">>
items == <<"items">>
Underscored(name) == Append(name, "_")
ColumnNames == {value, Underscored(value), <<"_">> \o value, items, Underscored(items)}
AttributeNames ==
    ColumnNames \cup {Underscored(Underscored(value)), <<"count">>, <<"keys">>,
                      <<"_">>, <<"other">>}

\* The rows of up to MaxCols columns with different names; the value of
\* the i-th column is i.
RowObjects ==
    {DictRow(cols, [i \in 1..Len(cols) |-> i]) :
        cols \in {c \in UNION {[1..n -> ColumnNames] : n \in 1..MaxCols} :
                    \A i, j \in 1..Len(c) : i # j => c[i] # c[j]}}

\* A RowHelper was made of a fetched row.
RowInit ==
    /\ CursorIdle
    /\ DbIdle
    /\ \E row \in RowObjects : record = RowHelper(row)
    /\ rlast = [attr |-> <<>>, result |-> NotRead]

\* record.attr
GetAttr ==
    /\ \E attr \in AttributeNames :
        rlast' = [attr |-> attr, result |-> ReadAttribute(record, attr)]
    /\ UNCHANGED <<record, cvars, dvars>>

RowNext == GetAttr

SpecRow == RowInit /\ [][RowNext]_vars

\* ------------------------------------------------ CursorHelper: claims
\* The CursorHelper of state st still wraps an open driver cursor.
Usable(st) == st.helper.cursor /\ ~st.cursor.closed

\* The call left the fetch position and the cached record as they were.
Untouched(call) ==
    /\ cursor.rownumber = call.pre.cursor.rownumber
    /\ helper.currentRecord = call.pre.helper.currentRecord

\* C1: a get(j) that follows a get(i) that returned, with j below i after
\* translation, raises NotImplementedError, calls fetchone() not once and
\* leaves rownumber and currentRecord as they were.
C1_PassedIndexRefused ==
    (/\ prev.op = "get" /\ prev.outcome = "ok"
     /\ last.op = "get" /\ last.tindex < prev.tindex)
    => (/\ last.outcome = "NotImplementedError"
        /\ last.fetchCalls = 0
        /\ Untouched(last))

C1_Witness ==
    /\ prev.op = "get" /\ prev.outcome = "ok" /\ prev.tindex = 2 /\ ~prev.value.none
    /\ last.op = "get" /\ last.index = 1
    /\ last.outcome = "NotImplementedError"

\* C3: for 1 <= k <= N, get(-k) does what get(N-k) does from the same
\* state: the same outcome, the same returned record and the same state
\* afterwards; a record it returns is the row at N-k.
C3_NegativeIndexIsFromEnd ==
    LET N == rowcount(last.pre.cursor) IN
    (last.op = "get" /\ last.index < 0 /\ 0 - last.index <= N)
    => LET r == GetItem(last.pre.cursor, last.pre.helper, N + last.index) IN
       /\ last.outcome = r.outcome
       /\ last.value = r.value
       /\ last.fetchCalls = r.fetchCalls
       /\ cursor.rownumber = r.cursor.rownumber
       /\ helper = r.helper
       /\ ~last.value.none
            => last.value = RowHelper(RowAt(last.pre.cursor.rows, N + last.index))

C3_Witness ==
    /\ last.op = "get" /\ last.index = 0 - 1 /\ last.outcome = "ok"
    /\ rowcount(cursor) >= 2 /\ last.fetchCalls >= 1
    /\ last.value = RowHelper(RowAt(cursor.rows, rowcount(cursor) - 1))

\* The rows a pass started at fetch position k yields up to position m.
RowsFrom(rows, k, m) == [i \in 1..(m - k) |-> RowHelper(RowAt(rows, k + i - 1))]

\* C4: a pass over the CursorHelper that began with k rows fetched, with no
\* get in between, has yielded the rows k .. rownumber-1 in the driver's
\* order, and when it has ended it has yielded the rows k .. N-1; over an
\* open driver cursor it ends only that way.
C4_IterationYieldsTheRest ==
    (gen.state # "none" /\ ~gen.interleaved)
    => /\ gen.state = "running"
            => gen.yielded = RowsFrom(cursor.rows, gen.start, cursor.rownumber)
       /\ gen.state = "ended"
            => gen.yielded = RowsFrom(cursor.rows, gen.start, rowcount(cursor))
       /\ gen.state = "raised" => ~Usable(last.pre)

C4_Witness ==
    /\ gen.state = "ended" /\ ~gen.interleaved
    /\ gen.start = 1 /\ Len(gen.yielded) = 2
    /\ last.outcome = "StopIteration"

\* C5: a get that follows a get that returned, for the same index after
\* translation, returns the record the first one returned, calls fetchone()
\* not once and leaves rownumber as it was.
C5_SameIndexIsCached ==
    (/\ prev.op = "get" /\ prev.outcome = "ok"
     /\ last.op = "get" /\ last.tindex = prev.tindex)
    => (/\ last.outcome = "ok"
        /\ last.value = prev.value
        /\ last.fetchCalls = 0
        /\ Untouched(last))

C5_Witness ==
    /\ prev.op = "get" /\ prev.outcome = "ok" /\ prev.index = 1
    /\ last.op = "get" /\ last.index = 1 /\ last.outcome = "ok"
    /\ last.value = RowHelper(RowAt(cursor.rows, 1))

\* C6: over an open driver cursor a get whose translated index is N or more
\* raises IndexError, leaving the fetch position at N and no cached record;
\* after an IndexError every get at or past the fetch position raises
\* IndexError again; and no get for an index of N or more ever returns.
C6_PastTheEndIsIndexError ==
    /\ (last.op = "get" /\ last.tindex >= rowcount(last.pre.cursor))
        => /\ last.outcome # "ok"
           /\ Usable(last.pre)
                => /\ last.outcome = "IndexError"
                   /\ cursor.rownumber = rowcount(cursor)
                   /\ helper.currentRecord = None
    /\ (last.outcome = "IndexError" /\ Usable([cursor |-> cursor, helper |-> helper]))
        => \A j \in Indexes :
              Translate(cursor, j) >= cursor.rownumber
                => GetItem(cursor, helper, j).outcome = "IndexError"

C6_Witness ==
    /\ prev.op = "get" /\ prev.outcome = "IndexError"
    /\ last.op = "get" /\ last.outcome = "IndexError"
    /\ rowcount(cursor) = 2 /\ last.index = 2 /\ last.pre.cursor.rownumber = 2

\* C10: no call of __del__ raises, whether made by the program or by the
\* garbage collector and whatever the driver answers, and the driver
\* cursor's close() has been called once if the CursorHelper was released
\* and not at all if it was not.
C10_ReleaseIsSafeAndSingle ==
    /\ last.op \in {"del", "finalize"} => last.outcome = "ok"
    /\ cursor.closeCalls = IF releases > 0 \/ ~alive THEN 1 ELSE 0

C10_Witness ==
    /\ releases >= 1 /\ ~alive
    /\ prev.op = "del" /\ prev.outcome = "ok" /\ prev.caught = "InterfaceError"
    /\ last.op = "finalize" /\ last.outcome = "ok"
    /\ cursor.closeCalls = 1

\* ----------------------------------------------- DatabaseClass: claims
\* The keys given to the latest insert() both in its dict and by keyword.
GivenTwice == IF dlast.in.dict.none THEN {} ELSE DOMAIN dlast.in.dict.map \cap DOMAIN dlast.in.kwargs

\* The execute() calls of the latest call.
Executed == SelectSeq(dlast.log, LAMBDA e : e.ev = "execute")

\* The value the latest insert() bound to column k.
Bound(k) ==
    LET e == Executed[1]
        i == CHOOSE i \in 1..Len(e.sql.columns) : e.sql.columns[i] = k
    IN  e.args[i]

\* C2 as stated: for a key given in the dict and by keyword, insert() binds
\* the keyword's value.
C2_KeywordWins ==
    (dlast.op = "insert" /\ Len(Executed) = 1)
    => \A k \in GivenTwice : Bound(k) = dlast.in.kwargs[k]

\* C2 as amended: insert() issues one INSERT over the keys of the dict and
\* of the keywords together, each once; for a key given in the dict and by
\* keyword it binds the dict's value, and for any other key the one value
\* given for it.
C2_DictWins ==
    (dlast.op = "insert" /\ dlast.outcome \in {"none", "ProgrammingError"})
    => /\ Len(Executed) = 1
       /\ LET e == Executed[1]
              given == IF dlast.in.dict.none THEN {} ELSE DOMAIN dlast.in.dict.map
          IN  /\ e.sql.kind = "insert"
              /\ Len(e.sql.columns) = Len(e.args)
              /\ {e.sql.columns[i] : i \in 1..Len(e.sql.columns)}
                    = given \cup DOMAIN dlast.in.kwargs
              /\ Len(e.sql.columns) = Cardinality(given \cup DOMAIN dlast.in.kwargs)
              /\ \A k \in given : Bound(k) = dlast.in.dict.map[k]
              /\ \A k \in DOMAIN dlast.in.kwargs \ given : Bound(k) = dlast.in.kwargs[k]

\* insert('t', {'a': 1, 'b': 99}, b=2) bound 1 to a and 99 to b.
C2_Witness ==
    /\ dlast.op = "insert" /\ dlast.outcome = "none"
    /\ ~dlast.in.dict.none
    /\ DOMAIN dlast.in.dict.map = {"a", "b"} /\ DOMAIN dlast.in.kwargs = {"b"}
    /\ Executed[1].sql.columns = <<"a", "b">>
    /\ Executed[1].args = <<1, 99>>

\* The latest call was made on a DatabaseClass that could connect.
Connectable == dlast.pre.db.initialized \/ TruthyStr(dlast.pre.db.connectString)

\* C7: queryone() of a SELECT on a DatabaseClass that can connect raises
\* nothing; it returns None when the SELECT matches no row and else the
\* RowHelper of the first row, whose list is that row's values.
C7_QueryOneFirstRowOrNone ==
    (dlast.op = "queryone" /\ dlast.in.sql.kind = "select" /\ Connectable)
    => /\ dlast.outcome = "none"
       /\ dlast.in.sql.rows = 0 => dlast.value = None
       /\ dlast.in.sql.rows >= 1
            => /\ dlast.value = RowHelper(RowAt(ResultSet(dlast.in.sql.rows), 0))
               /\ dlast.value.vals = <<0>>

C7_Witness ==
    /\ dlast.op = "queryone" /\ dlast.in.sql = Select(0)
    /\ dlast.outcome = "none" /\ dlast.value = None
    /\ Len(Executed) = 1

\* The connections opened and not closed.
Live == {i \in 1..Len(conns) : ~conns[i].closed}

\* The connections the latest call opened.
Opened == SelectSeq(dlast.log, LAMBDA e : e.ev = "open")

\* C8: the DatabaseClass has one live connection, its own, when it is
\* initialized and none when it is not; setup() on an initialized one opens
\* nothing and changes nothing.
C8_OneLiveConnection ==
    /\ Cardinality(Live) <= 1
    /\ db.initialized <=> Cardinality(Live) = 1
    /\ db.initialized => Live = {db.connection}
    /\ (dlast.op = "setup" /\ dlast.pre.db.initialized)
        => /\ Opened = <<>>
           /\ dlast.outcome = "none"
           /\ db = dlast.pre.db
           /\ conns = dlast.pre.conns

C8_Witness ==
    /\ dlast.op = "setup" /\ dlast.pre.db.initialized
    /\ db.initialized /\ Cardinality(Live) = 1
    /\ Len(conns) = 2

\* The calls that begin with setup().
Lazy == {"setup", "query", "queryone", "insert", "commit", "rollback"}

\* C9: on a DatabaseClass that was never given a connection string each of
\* setup, query, queryone, insert, commit and rollback raises ValueError,
\* calls nothing of the driver and leaves the object uninitialized with no
\* connection; on an uninitialized one that holds a connection string the
\* first thing each does is open a connection with that string, and every
\* other driver call it makes is on that connection.
C9_LazySetup ==
    /\ (dlast.op \in Lazy /\ dlast.pre.db.connectString = NoneStr)
        => /\ dlast.outcome = "ValueError"
           /\ dlast.log = <<>>
           /\ ~db.initialized
           /\ db.connection = 0
           /\ conns = dlast.pre.conns
    /\ (dlast.op \in Lazy /\ ~dlast.pre.db.initialized
            /\ TruthyStr(dlast.pre.db.connectString))
        => /\ dlast.outcome # "ValueError"
           /\ Len(dlast.log) >= 1
           /\ dlast.log[1].ev = "open"
           /\ Len(Opened) = 1
           /\ conns[dlast.log[1].conn].dsn = dlast.pre.db.connectString
           /\ dlast.log[1].conn \notin 1..Len(dlast.pre.conns)
           /\ \A i \in 1..Len(dlast.log) : dlast.log[i].conn = dlast.log[1].conn
           /\ db.initialized /\ db.connection = dlast.log[1].conn
           /\ dlast.op # "setup" => Len(dlast.log) >= 2

C9_Witness ==
    /\ dlast.op = "commit" /\ ~dlast.pre.db.initialized
    /\ dlast.pre.db.connectString = "dbname=a"
    /\ Len(dlast.pre.conns) = 1
    /\ dlast.log = <<Event("open", 2, NoStatement, <<>>),
                     Event("commit", 2, NoStatement, <<>>)>>

\* C11: close(), called by the program or by __del__, on a DatabaseClass
\* that is not initialized calls nothing and changes nothing; on an
\* initialized one it calls the connection's close() once and leaves the
\* object uninitialized without a connection, its connection string kept;
\* no connection is ever closed twice, and a close() that follows a close()
\* calls nothing and changes nothing.
C11_CloseIsIdempotent ==
    /\ \A i \in 1..Len(conns) : conns[i].closeCalls = IF conns[i].closed THEN 1 ELSE 0
    /\ (dlast.op \in {"close", "del"} /\ ~dlast.pre.db.initialized)
        => /\ dlast.outcome = "none"
           /\ dlast.log = <<>>
           /\ db = dlast.pre.db
           /\ conns = dlast.pre.conns
    /\ (dlast.op \in {"close", "del"} /\ dlast.pre.db.initialized)
        => LET id == dlast.pre.db.connection IN
           /\ dlast.outcome = "none"
           /\ dlast.log = <<Event("close", id, NoStatement, <<>>)>>
           /\ conns = [dlast.pre.conns EXCEPT ![id].closed = TRUE, ![id].closeCalls = 1]
           /\ db = [dlast.pre.db EXCEPT !.initialized = FALSE, !.connection = 0]
    /\ dlast.op \in {"close", "del"}
        => LET again == close(Begin(db, conns)) IN
           /\ again.error = "none"
           /\ again.log = <<>>
           /\ again.db = db
           /\ again.conns = conns

\* close() on a DatabaseClass that an earlier close() left uninitialized.
C11_Witness ==
    /\ dlast.op = "close" /\ ~dlast.pre.db.initialized
    /\ dlast.pre.db.connectString = "dbname=a"
    /\ Len(conns) = 1 /\ conns[1].closed /\ conns[1].closeCalls = 1

\* ---------------------------------------------------- RowHelper: claims
\* name is a column of the RowHelper read.
IsColumn(name) == \E i \in 1..Len(record.cols) : record.cols[i] = name

\* The value of the column called name.
ColumnValue(name) ==
    LET i == CHOOSE i \in 1..Len(record.cols) : record.cols[i] = name IN record.vals[i]

C13_LeadingUnderscoreReadsColumn ==
    (/\ rlast.result.kind # "none"
     /\ Len(rlast.attr) >= 2 /\ rlast.attr[1] = "_"
     /\ IsColumn(Tail(rlast.attr)))
    => rlast.result = TheValue(ColumnValue(Tail(rlast.attr)))

\* ----------------------------------------- DatabaseClass: more claims
\* How many driver calls named ev the latest call made.
Count(ev) == Len(SelectSeq(dlast.log, LAMBDA e : e.ev = ev))

\* C14: commit() calls the connection's commit() once and its rollback()
\* not at all, rollback() the reverse, either only when it does not fail
\* for want of a connection string; no other call calls commit() or
\* rollback(); and a statement the driver rejects is executed once, its
\* error leaves the call as it is, and nothing is rolled back.
C14_NoImplicitTransactionControl ==
    /\ dlast.op = "commit"
        => /\ Count("commit") = IF dlast.outcome = "none" THEN 1 ELSE 0
           /\ Count("rollback") = 0
           /\ Connectable => dlast.outcome = "none"
    /\ dlast.op = "rollback"
        => /\ Count("rollback") = IF dlast.outcome = "none" THEN 1 ELSE 0
           /\ Count("commit") = 0
           /\ Connectable => dlast.outcome = "none"
    /\ dlast.op \notin {"commit", "rollback"}
        => Count("commit") = 0 /\ Count("rollback") = 0
    /\ (/\ dlast.op \in {"query", "queryone", "insert"} /\ Connectable
        /\ \/ dlast.in.sql.kind = "bad"
           \/ dlast.op = "insert" /\ dlast.in.order = <<>>)
        => /\ dlast.outcome = "ProgrammingError"
           /\ Count("execute") = 1
           /\ dlast.log[Len(dlast.log)].ev = "execute"

\* A rejected statement of queryone(): executed once, the error passed on.
C14_Witness ==
    /\ dlast.op = "queryone" /\ dlast.in.sql = BadStatement
    /\ dlast.pre.db.initialized
    /\ dlast.outcome = "ProgrammingError"
    /\ Count("execute") = 1 /\ Count("rollback") = 0

\* C15: insert() on a DatabaseClass that can connect executes one
\* statement, an INSERT into the table given whose columns are the keys of
\* the merged dict in the order it iterates them, with one %s for each
\* column and, bound in the i-th place, the merged dict's value for the
\* i-th column; it calls no commit().
C15_InsertStatementShape ==
    (dlast.op = "insert" /\ Connectable)
    => /\ Count("execute") = 1
       /\ Count("cursor") = 1
       /\ Count("commit") = 0
       /\ LET e == Executed[1]
              merged == Merged(dlast.in.dict, dlast.in.kwargs)
          IN  /\ e.sql.kind = "insert"
              /\ e.sql.table = dlast.in.table
              /\ e.sql.columns = dlast.in.order
              /\ Len(e.sql.placeholders) = Len(e.sql.columns)
              /\ \A i \in 1..Len(e.sql.placeholders) : e.sql.placeholders[i] = "%s"
              /\ Len(e.args) = Len(e.sql.columns)
              /\ \A i \in 1..Len(e.args) : e.args[i] = merged[e.sql.columns[i]]

\* insert('t', {'a': 1}, b=2) executed INSERT INTO t (a,b) VALUES (%s,%s)
\* with (1, 2).
C15_Witness ==
    /\ dlast.op = "insert" /\ dlast.outcome = "none"
    /\ ~dlast.in.dict.none
    /\ DOMAIN dlast.in.dict.map = {"a"} /\ DOMAIN dlast.in.kwargs = {"b"}
    /\ Executed[1].sql.columns = <<"a", "b">>
    /\ Executed[1].sql.placeholders = <<"%s", "%s">>
    /\ Executed[1].args = <<1, 2>>

\* ------------------------------------------ CursorHelper: more claims
\* C16: a get that returns for a translated index i at or past the fetch
\* position has called fetchone() once for each row from the fetch position
\* to i and no more: afterwards rownumber is i + 1 and currentRecord, which
\* it returns, is row i; and whatever is called, rownumber never goes down
\* and never goes past N.
C16_FetchesForwardToIndex ==
    /\ (/\ last.op = "get" /\ last.outcome = "ok"
        /\ last.tindex >= last.pre.cursor.rownumber)
        => /\ cursor.rownumber = last.tindex + 1
           /\ last.fetchCalls = last.tindex + 1 - last.pre.cursor.rownumber
           /\ helper.currentRecord = RowHelper(RowAt(cursor.rows, last.tindex))
           /\ last.value = helper.currentRecord
    /\ cursor.rownumber >= last.pre.cursor.rownumber
    /\ cursor.rownumber \in 0..rowcount(cursor)

\* rows[2] on a fresh CursorHelper fetched the rows 0, 1 and 2.
C16_Witness ==
    /\ last.op = "get" /\ last.index = 2 /\ last.outcome = "ok"
    /\ last.pre.cursor.rownumber = 0 /\ last.fetchCalls = 3
    /\ cursor.rownumber = 3

\* C17: a get that returns gives the RowHelper of the row at the translated
\* index, which is one of 0 .. N-1; it never gives None.
C17_GetReturnsTheRowAsked ==
    (last.op = "get" /\ last.outcome = "ok")
    => /\ last.tindex \in 0..(rowcount(cursor) - 1)
       /\ ~last.value.none
       /\ last.value = RowHelper(RowAt(cursor.rows, last.tindex))

\* The three cases the claim names, as the code ends them: a get that
\* returned None.  Each is a state the CursorHelper reaches.
C17_EmptyResultMinusOne ==
    /\ last.op = "get" /\ last.outcome = "ok" /\ last.value = None
    /\ rowcount(cursor) = 0 /\ last.index = 0 - 1

C17_BelowMinusN ==
    /\ last.op = "get" /\ last.outcome = "ok" /\ last.value = None
    /\ rowcount(cursor) = 2 /\ last.index = 0 - 3 /\ last.pre.cursor.rownumber = 0

C17_LastRowAfterExhaustion ==
    /\ prev.op = "get" /\ prev.outcome = "IndexError"
    /\ last.op = "get" /\ last.outcome = "ok" /\ last.value = None
    /\ rowcount(cursor) = 2 /\ last.index = 1

\* C18: the connection of an initialized DatabaseClass was opened with the
\* connection string the object holds, and the statements it executes are
\* executed on a connection opened with that string.
C18_ConnectionIsForStoredString ==
    /\ db.initialized => conns[db.connection].dsn = db.connectString
    /\ \A i \in 1..Len(dlast.log) :
          dlast.log[i].ev = "execute" => conns[dlast.log[i].conn].dsn = db.connectString

\* A statement executed after connect('dbname=a') and connect('dbname=b'),
\* on the connection opened for dbname=a.
C18_StatementOnOldConnection ==
    /\ dlast.op = "query" /\ dlast.outcome = "none"
    /\ db.connectString = "dbname=b"
    /\ Len(conns) = 1 /\ conns[1].dsn = "dbname=a"
    /\ Executed[1].conn = 1

\* The index of a row of ResultSet: its value.
IndexOf(r) == r.vals[1]

\* What C19 says of every state: a step of the generator that yields has
\* fetched one row, the one at the fetch position the step began at; the
\* rows a pass has yielded have increasing indexes, so none comes twice and
\* there are no more of them than rows were left when it began; and a
\* step at the end of the result set ends the generator.
C19_EachStep ==
    /\ (last.op = "next" /\ last.outcome = "ok")
        => /\ last.value = RowHelper(RowAt(cursor.rows, last.pre.cursor.rownumber))
           /\ last.fetchCalls = 1
           /\ cursor.rownumber = last.pre.cursor.rownumber + 1
    /\ \A i, j \in 1..Len(gen.yielded) :
          i < j => IndexOf(gen.yielded[i]) < IndexOf(gen.yielded[j])
    /\ \A i \in 1..Len(gen.yielded) :
          /\ IndexOf(gen.yielded[i]) >= gen.start
          /\ IndexOf(gen.yielded[i]) < cursor.rownumber
    /\ Len(gen.yielded) <= rowcount(cursor) - gen.start
    /\ (last.op = "next" /\ last.pre.cursor.rownumber >= rowcount(cursor))
        => last.outcome # "ok"
    /\ (gen.state = "running" /\ cursor.rownumber >= rowcount(cursor))
        => IterStep(cursor, helper).outcome # "ok"

\* C19: with gets between the steps of a pass, what C19_EachStep says holds
\* throughout, and a pass that is consumed ends.
C19_InterleavedIterationEnds ==
    /\ []C19_EachStep
    /\ (gen.state = "running") ~> (gen.state = "ended")

\* A pass over three rows with rows[1] asked between its steps: it yielded
\* the rows 0 and 2 and ended.
C19_Witness ==
    /\ gen.state = "ended" /\ gen.interleaved /\ gen.start = 0
    /\ rowcount(cursor) = 3
    /\ Len(gen.yielded) = 2
    /\ IndexOf(gen.yielded[1]) = 0 /\ IndexOf(gen.yielded[2]) = 2

\* ------------------------------------------- DatabaseClass: after close()
\* The connections that were closed before the latest call.
ClosedBefore == {i \in 1..Len(dlast.pre.conns) : dlast.pre.conns[i].closed}

\* The latest call found a DatabaseClass that had been connected and closed.
Reopens ==
    /\ dlast.op \in {"query", "queryone", "insert", "commit", "rollback"}
    /\ ~dlast.pre.db.initialized
    /\ ClosedBefore # {}

\* C20: close() keeps the connection string; query, queryone, insert, commit
\* or rollback on a DatabaseClass that was connected and closed does not
\* raise ValueError but first opens a new connection with the string the
\* object held and works on it; no call ever reaches a connection that was
\* closed before it, and the object never holds a closed connection.
C20_ReopensAfterClose ==
    /\ dlast.op \in {"close", "del"} => db.connectString = dlast.pre.db.connectString
    /\ Reopens
        => LET id == Len(dlast.pre.conns) + 1 IN
           /\ dlast.outcome # "ValueError"
           /\ Len(dlast.log) >= 2
           /\ dlast.log[1] = Event("open", id, NoStatement, <<>>)
           /\ conns[id] = DictConnection(dlast.pre.db.connectString)
           /\ db.connection = id /\ db.initialized
           /\ db.connectString = dlast.pre.db.connectString
    /\ \A i \in 1..Len(dlast.log) : dlast.log[i].conn \notin ClosedBefore
    /\ db.connection # 0 => ~conns[db.connection].closed
    /\ \A i \in ClosedBefore : conns[i] = dlast.pre.conns[i]

\* A query after connect('dbname=a') and close(): connection 2 is opened and
\* the statement executed on it.
C20_Witness ==
    /\ dlast.op = "query" /\ dlast.outcome = "none"
    /\ dlast.pre.conns = <<[DictConnection("dbname=a") EXCEPT !.closed = TRUE,
                                                              !.closeCalls = 1]>>
    /\ dlast.log[1] = Event("open", 2, NoStatement, <<>>)
    /\ Executed[1].conn = 2
    /\ conns[1].closed /\ ~conns[2].closed

=============================================================================
